---- MODULE Spec2Model ----
(***************************************************************************)
(* Optimization orchestrator of freqsearch (python-agents): the external   *)
(* loop runner (agents/orchestrator/runner.py), the run context            *)
(* (context.py) and the five-stage single-iteration pipeline               *)
(* (iteration_nodes.py, graph.py), against the backend run record they     *)
(* read and control through the RPC client.                                *)
(*                                                                         *)
(* Every await of run_optimization is one step.  An RPC or a publish may   *)
(* raise; the step then takes the exception edge the Python code has at    *)
(* that line (an enclosing try/except, or propagation out of the call).    *)
(* The Events class of core/messaging.py, lines 21-47, defines no          *)
(* OPTIMIZATION_* routing key, so as the sources stand the publishes of    *)
(* runner.py:101, runner.py:127 and iteration_nodes.py:475 take the        *)
(* raising edge (AttributeError); the succeeding edge is the behaviour     *)
(* with the routing keys of spec section 4.2 defined.  Both are modelled.  *)
(***************************************************************************)
EXTENDS Integers, Sequences, FiniteSets, TLC

\* ---------------------------------------------------------------- bounds
MaxIterations == 2
MaxSharpe == 1
MaxPipelineRuns == 2
MaxMessages == 3
MaxUses == 3
MaxTasks == 3
MaxPublishes == 2
MaxCalls == 2
MaxLegacyIterations == 3
MaxRetries == 4

\* ------------------------------------------------------ program constants
MAX_VALIDATION_RETRIES == 5
BACKTEST_POLL_INTERVAL == 5
BACKTEST_MAX_WAIT == 600

\* Strategy ids: None, the base strategy, a strategy an earlier invocation
\* left as best, and then the ids create_strategy hands out.
NoStrategy == 0
BaseStrategy == 1
PriorStrategy == 2
FirstCreatedId == 3

\* Sharpe values: float("-inf"), Python None (or an absent key), and the
\* finite values 0..MaxSharpe.
NegInf == -1
NoneSharpe == -2
NaNSharpe == -3
FiniteSharpe == 0..MaxSharpe

VARIABLES
    pc,         \* position of the runner coroutine
    entry,      \* "run": run_optimization called; "resume": resume_optimization
    run,        \* the backend's persisted OptimizationRun record
    pending,    \* outcome of the iteration just saved, for the backend to record
    created,    \* strategies created in the backend: [id, parent, iteration]
    ctx,        \* the runner's OptimizationContext
    st,         \* SingleIterationState of the pipeline invocation in flight
    envelope,   \* the dict run_optimization returned
    events,     \* events published, in order: [key, iteration]
    controls,   \* control_optimization calls issued, in order
    handed,     \* what each pipeline invocation was handed: [iteration, best_sharpe]
    returned,   \* termination_reason of each pipeline result saved so far
    channels,   \* number of FreqSearchClient scopes holding an open channel
    backtests,  \* the completed backtest of the highest Sharpe so far: [strategy, sharpe]
    analyst,    \* AnalystState at submit_decision_node
    consumer,   \* a subscriber's queue and what became of each message
    client,     \* FreqSearchClient objects used in scoped blocks
    bus,        \* the global MessageBroker and the tasks publishing through it
    outbox,     \* bodies handed to publish_event and what was published
    calls,      \* applications of the mapping functions: [fn, arg, out]
    loop        \* the retry loop of stage 1 or the polling loop of stage 3

\* The variables of a run, and those of the parts modelled on their own.
runner == <<pc, entry, run, pending, created, ctx, st, envelope, events,
            controls, handed, returned, channels, backtests>>
parts == <<analyst, consumer, client>>
units == <<bus, outbox, calls, loop>>

vars == <<runner, parts, units>>

Terminal == {"completed", "failed", "cancelled"}
Statuses == {"pending", "running", "paused"} \cup Terminal

\* ------------------------------------------------------------ run context

\* OptimizationContext.load that restarts the iteration counter at 0 in
\* place of current_iteration of context.py:90.
LoadFromStart(r) ==
    [ current_iteration   |-> 0,
      max_iterations      |-> r.max_iterations,
      best_strategy_id    |-> r.best_strategy_id,
      best_sharpe         |-> r.best_sharpe,
      current_strategy_id |-> IF r.best_strategy_id # NoStrategy
                              THEN r.best_strategy_id ELSE BaseStrategy,
      previous_feedback   |-> r.feedback,
      status              |-> r.status ]

\* OptimizationContext.load: the context derived from the run snapshot.
Load(r) ==
    [ current_iteration   |-> r.current_iteration,
      max_iterations      |-> r.max_iterations,
      best_strategy_id    |-> r.best_strategy_id,
      best_sharpe         |-> r.best_sharpe,
      current_strategy_id |-> IF r.best_strategy_id # NoStrategy
                              THEN r.best_strategy_id ELSE BaseStrategy,
      previous_feedback   |-> r.feedback,
      status              |-> r.status ]

UnloadedCtx ==
    [ current_iteration |-> 0, max_iterations |-> 0, best_strategy_id |-> NoStrategy,
      best_sharpe |-> NegInf, current_strategy_id |-> NoStrategy,
      previous_feedback |-> "none", status |-> "unloaded" ]

\* is_complete with "cancelled" left out of the tuple of context.py:218.
is_complete_without_cancelled(c) == c.status \in {"completed", "failed"}

\* OptimizationContext.is_complete
is_complete(c) == c.status \in Terminal

\* has_iterations_remaining with <= for the < of context.py:226.
has_iterations_remaining_inclusive(c) == c.current_iteration <= c.max_iterations

\* has_iterations_remaining that stops one iteration early.
has_iterations_remaining_short(c) == c.current_iteration + 1 < c.max_iterations

\* OptimizationContext.has_iterations_remaining
has_iterations_remaining(c) == c.current_iteration < c.max_iterations

NoResult == [kind |-> "none", sharpe |-> NoneSharpe]

\* OptimizationContext.to_iteration_state
to_iteration_state(c) ==
    [ current_iteration      |-> c.current_iteration,
      current_strategy_id    |-> c.current_strategy_id,
      input_feedback         |-> c.previous_feedback,
      mode                   |-> IF c.current_iteration = 0 THEN "new" ELSE "evolve",
      best_sharpe            |-> c.best_sharpe,
      best_strategy_id       |-> c.best_strategy_id,
      engineer_result        |-> FALSE,
      generated_strategy_id  |-> NoStrategy,
      backtest_job_id        |-> FALSE,
      backtest_result        |-> NoResult,
      analyst_decision       |-> "none",
      analyst_feedback       |-> "none",
      validation_passed      |-> FALSE,
      validation_retry_count |-> 0,
      should_terminate       |-> FALSE,
      termination_reason     |-> "none",
      is_new_best            |-> FALSE,
      new_best_sharpe        |-> NoneSharpe ]

IdleState == to_iteration_state(UnloadedCtx)

\* The save of context.py:184 counting the validation retries of the
\* iteration as iterations.
SavedContextCountingRetries(c, res) ==
    [ c EXCEPT !.current_iteration = @ + 1 + res.validation_retry_count ]

\* The local updates of OptimizationContext.save_iteration_result
\* (context.py:170-184): best, current strategy, feedback, iteration + 1.
SavedContext(c, res) ==
    LET newBest == res.is_new_best /\ res.generated_strategy_id # NoStrategy IN
    [ c EXCEPT
        !.best_strategy_id    = IF newBest THEN res.generated_strategy_id ELSE @,
        !.best_sharpe         = IF newBest THEN res.new_best_sharpe ELSE @,
        !.current_strategy_id = IF res.generated_strategy_id # NoStrategy
                                THEN res.generated_strategy_id ELSE @,
        !.previous_feedback   = IF res.analyst_feedback # "none"
                                THEN res.analyst_feedback ELSE @,
        !.current_iteration   = @ + 1 ]

\* The control action save_iteration_result issues for a terminating result
\* (context.py:188-203); "none" when it issues no call.
SaveControlAction(res) ==
    IF ~res.should_terminate THEN "none"
    ELSE IF res.termination_reason = "approved" THEN "complete"
    ELSE IF res.termination_reason \in {"archived", "validation_failed"} THEN "fail"
    ELSE "none"

\* OrchestratorRunner._build_result
build_result(c, reason, err) ==
    [ iterations_completed |-> c.current_iteration,
      max_iterations       |-> c.max_iterations,
      best_strategy_id     |-> c.best_strategy_id,
      best_sharpe          |-> c.best_sharpe,
      termination_reason   |-> reason,
      status               |-> IF reason \in {"approved", "max_iterations"}
                               THEN "completed" ELSE "failed",
      error                |-> err ]

NoEnvelope == build_result(UnloadedCtx, "none", FALSE)

\* ---------------------------------------------------------------- backend

\* The backend's handling of ControlOptimization: terminal states are final
\* (spec section 3), otherwise the action sets the status.
ControlOptimization(r, action) ==
    IF r.status \in Terminal THEN r
    ELSE [r EXCEPT !.status = CASE action = "resume"   -> "running"
                                [] action = "complete" -> "completed"
                                [] action = "fail"     -> "failed"
                                [] OTHER               -> @]

\* The backend persisting one finished iteration (spec section 4.3, Save):
\* the iteration counter advances, best is raised by a better Sharpe, the
\* latest feedback is replaced.
Recorded(r, it) ==
    LET better == it.sharpe > r.best_sharpe /\ it.strategy # NoStrategy IN
    [ r EXCEPT
        !.current_iteration = @ + 1,
        !.best_sharpe       = IF better THEN it.sharpe ELSE @,
        !.best_strategy_id  = IF better THEN it.strategy ELSE @,
        !.feedback          = IF it.feedback # "none" THEN it.feedback ELSE @ ]

\* No iteration outcome awaits recording.
NoOutcome == [sharpe |-> NoneSharpe, strategy |-> NoStrategy, feedback |-> "none",
              saved |-> FALSE]

\* No backtest has completed.
NoBacktests == [strategy |-> NoStrategy, sharpe |-> NegInf]

\* The parts modelled on their own, while they are not under study.
IdleAnalyst == [pc |-> "idle"]
IdleConsumer == [pc |-> "idle"]
IdleClient == [pc |-> "idle"]
IdleBus == [pc |-> "idle"]
IdleOutbox == [pc |-> "idle"]
IdleCalls == <<>>
IdleLoop == [status |-> "idle"]

\* The parts other than the runner standing by.
PartsIdle == analyst = IdleAnalyst /\ consumer = IdleConsumer /\ client = IdleClient
UnitsIdle == bus = IdleBus /\ outbox = IdleOutbox /\ calls = IdleCalls /\ loop = IdleLoop

\* ---------------------------------------------------------------- helpers

Emit(key, it) == Append(events, [key |-> key, iteration |-> it])

Called(action, by, reason) ==
    Append(controls, [action |-> action, by |-> by, reason |-> reason])

\* Entering a FreqSearchClient scope opens a channel (client.py:253-256).
Opened == channels + 1

\* Leaving n FreqSearchClient scopes closes their channels (client.py:258-260).
Closed(ch, n) == ch - n

\* Scopes run_optimization's return or exception unwinds: its own, and the
\* one resume_optimization holds around the call (runner.py:190-205).
Depth == IF entry = "resume" THEN 2 ELSE 1

\* Where the while loop of runner.py:92 goes with context c.
LoopPc(c) == IF has_iterations_remaining(c) THEN "pub_started" ELSE "max_iter"

\* ------------------------------------------------------------------- Init

InitRuns ==
    { r \in [ status : Statuses, current_iteration : 0..MaxIterations,
              max_iterations : 1..MaxIterations,
              best_strategy_id : {NoStrategy, PriorStrategy},
              best_sharpe : {NegInf} \cup FiniteSharpe,
              feedback : {"none", "analyst"} ] :
        /\ r.current_iteration <= r.max_iterations
        /\ (r.best_strategy_id = NoStrategy) = (r.best_sharpe = NegInf)
        /\ r.current_iteration = 0 =>
             (r.best_strategy_id = NoStrategy /\ r.feedback = "none") }

InitWith(entries) ==
    /\ entry \in entries
    /\ pc = IF entry = "resume" THEN "r_open" ELSE "open"
    /\ run \in InitRuns
    /\ pending = NoOutcome
    /\ created = <<>>
    /\ ctx = UnloadedCtx
    /\ st = IdleState
    /\ envelope = NoEnvelope
    /\ events = <<>>
    /\ controls = <<>>
    /\ handed = <<>>
    /\ returned = <<>>
    /\ channels = 0
    /\ backtests = NoBacktests
    /\ analyst = IdleAnalyst
    /\ consumer = IdleConsumer
    /\ client = IdleClient
    /\ UnitsIdle

\* run_optimization is called.
Init == InitWith({"run"})

\* run_optimization or resume_optimization is called.
InitEither == InitWith({"run", "resume"})

\* ------------------------------------------------- runner: entry and load

Done == {"returned", "raised"}

\* resume_optimization, runner.py:190: entering the outer client scope;
\* connect may raise.
ResumeConnect ==
    /\ pc = "r_open"
    /\ \E ok \in BOOLEAN :
         IF ok THEN /\ pc' = "r_load"
                    /\ channels' = Opened
               ELSE /\ pc' = "raised"
                    /\ UNCHANGED channels
    /\ UNCHANGED <<parts, units, backtests, entry, run, pending, created, ctx, st, envelope, events,
                   controls, handed, returned>>

\* resume_optimization, runner.py:191-205: load, return if complete, else
\* call run_optimization inside the still open scope.
ResumeLoad ==
    /\ pc = "r_load"
    /\ \/ /\ pc' = "raised"
          /\ channels' = Closed(channels, 1)
          /\ UNCHANGED <<ctx, envelope>>
       \/ /\ ctx' = Load(run)
          /\ IF is_complete(ctx')
             THEN /\ envelope' = build_result(ctx', "already_complete", FALSE)
                  /\ pc' = "returned"
                  /\ channels' = Closed(channels, 1)
             ELSE /\ pc' = "open"
                  /\ UNCHANGED <<envelope, channels>>
    /\ UNCHANGED <<parts, units, backtests, entry, run, pending, created, st, events, controls,
                   handed, returned>>

\* run_optimization, runner.py:75: entering the client scope; connect may
\* raise, which unwinds the scope resume_optimization holds.
Connect ==
    /\ pc = "open"
    /\ \E ok \in BOOLEAN :
         IF ok THEN /\ pc' = "load"
                    /\ channels' = Opened
               ELSE /\ pc' = "raised"
                    /\ channels' = Closed(channels, Depth - 1)
    /\ UNCHANGED <<parts, units, backtests, entry, run, pending, created, ctx, st, envelope, events,
                   controls, handed, returned>>

\* run_optimization, runner.py:77-86: the initial load and the
\* already-complete return.
InitialLoad ==
    /\ pc = "load"
    /\ \/ /\ pc' = "raised"
          /\ channels' = Closed(channels, Depth)
          /\ UNCHANGED <<ctx, envelope>>
       \/ /\ ctx' = Load(run)
          /\ IF is_complete(ctx')
             THEN /\ envelope' = build_result(ctx', "already_complete", FALSE)
                  /\ pc' = "returned"
                  /\ channels' = Closed(channels, Depth)
             ELSE /\ pc' = "resume"
                  /\ UNCHANGED <<envelope, channels>>
    /\ UNCHANGED <<parts, units, backtests, entry, run, pending, created, st, events, controls,
                   handed, returned>>

\* run_optimization, runner.py:89: control_optimization(run_id, "resume"),
\* outside any try block; then the first test of the while loop.
ControlResume ==
    /\ pc = "resume"
    /\ controls' = Called("resume", "runner", "none")
    /\ \/ /\ pc' = "raised"
          /\ channels' = Closed(channels, Depth)
          /\ UNCHANGED run
       \/ /\ run' = ControlOptimization(run, "resume")
          /\ pc' = LoopPc(ctx)
          /\ UNCHANGED channels
    /\ UNCHANGED <<parts, units, backtests, entry, pending, created, ctx, st, envelope, events,
                   handed, returned>>

\* run_optimization, runner.py:101-115: publish iteration.started (outside
\* the try block), then build the iteration state for a fresh graph.
PublishIterationStarted ==
    /\ pc = "pub_started"
    /\ Len(handed) < MaxPipelineRuns
    /\ \/ /\ pc' = "raised"
          /\ channels' = Closed(channels, Depth)
          /\ UNCHANGED <<events, st, handed>>
       \/ /\ events' = Emit("optimization.iteration.started", ctx.current_iteration)
          /\ st' = to_iteration_state(ctx)
          /\ handed' = Append(handed, [iteration |-> ctx.current_iteration,
                                       best_sharpe |-> ctx.best_sharpe,
                                       current_strategy_id |->
                                           ctx.current_strategy_id])
          /\ pc' = "stage1"
          /\ UNCHANGED channels
    /\ UNCHANGED <<parts, units, backtests, entry, run, pending, created, ctx, envelope, controls, returned>>

\* ------------------------------------------------------------- pipeline

\* The state update a stage returns to terminate the iteration.
Terminate(s, reason) ==
    [s EXCEPT !.should_terminate = TRUE, !.termination_reason = reason]

\* An exhausted retry loop that leaves validation_passed set.
RetriesExhaustedPassing(s, count) ==
    [Terminate(s, "validation_max_retries") EXCEPT
        !.validation_passed = TRUE, !.validation_retry_count = count]

\* validate_and_engineer_node, iteration_nodes.py:153-165: the state returned
\* when the retry loop ends without a valid strategy.
RetriesExhausted(s, count) ==
    [Terminate(s, "validation_max_retries") EXCEPT
        !.validation_passed = FALSE, !.validation_retry_count = count]

\* How many turns of the retry loop fail validation (the engineer's own, or
\* the backend's) before a turn that does not: none, the most the loop
\* still follows with another turn, and MAX_VALIDATION_RETRIES.
Fails == {0, MAX_VALIDATION_RETRIES - 1, MAX_VALIDATION_RETRIES}

\* A turn of the retry loop whose guard admits a turn at the limit.
EngineerTurnAtLimit(w) ==
    IF w.status # "looping" THEN w
    ELSE IF ~(w.validation_retry_count <= MAX_VALIDATION_RETRIES)
    THEN [w EXCEPT !.status = "exhausted"]
    ELSE IF w.fails = 0
    THEN [w EXCEPT !.status = w.last, !.engineer_runs = @ + 1]
    ELSE [w EXCEPT !.validation_retry_count = @ + 1, !.fails = @ - 1,
                   !.engineer_runs = @ + 1]

\* One turn of the while loop of validate_and_engineer_node,
\* iteration_nodes.py:69-151, on the loop's state: w.status is "looping"
\* until the node returns, w.fails the failing turns still to come, w.last
\* what the turn after them does.
EngineerTurn(w) ==
    IF w.status # "looping" THEN w
    ELSE IF ~(w.validation_retry_count < MAX_VALIDATION_RETRIES)
    THEN [w EXCEPT !.status = "exhausted"]
    ELSE IF w.fails = 0
    THEN [w EXCEPT !.status = w.last, !.engineer_runs = @ + 1]
    ELSE [w EXCEPT !.validation_retry_count = @ + 1, !.fails = @ - 1,
                   !.engineer_runs = @ + 1]

RECURSIVE EngineerTurns(_, _)
EngineerTurns(n, w) == IF n = 0 THEN w ELSE EngineerTurns(n - 1, EngineerTurn(w))

\* The loop run until the node returns.
EngineerLoop(fails, last) ==
    EngineerTurns(MAX_VALIDATION_RETRIES + 1,
                  [status |-> "looping", validation_retry_count |-> 0,
                   engineer_runs |-> 0, fails |-> fails, last |-> last])

\* validate_and_engineer_node, iteration_nodes.py:28-165.  last is what the
\* first turn that does not fail validation does: run_engineer raises, it
\* returns no code, the backend finds the code valid, or the validating
\* call raises (which the node takes as valid).
validate_and_engineer_node ==
    /\ pc = "stage1"
    /\ pc' = "stage2"
    /\ \E fails \in Fails, last \in {"raise", "no_code", "valid", "rpc_error"} :
         LET left == EngineerLoop(fails, last) IN
         st' = CASE left.status = "raise" ->
                      [Terminate(st, "engineer_exception") EXCEPT
                          !.validation_passed = FALSE]
                 [] left.status = "no_code" ->
                      [Terminate(st, "engineer_no_code") EXCEPT
                          !.validation_passed = FALSE]
                 [] left.status = "exhausted" ->
                      RetriesExhausted(st, left.validation_retry_count)
                 [] left.status \in {"valid", "rpc_error"} ->
                      [st EXCEPT !.engineer_result = TRUE,
                                 !.validation_passed = TRUE,
                                 !.validation_retry_count =
                                     left.validation_retry_count]
    /\ UNCHANGED <<parts, units, backtests, entry, run, pending, created, ctx, envelope, events, controls,
                   handed, returned, channels>>

\* The id create_strategy returns for the next strategy.
NextStrategyId == FirstCreatedId + Len(created)

\* A parent taken from the best strategy so far.
ParentOfBest(s) == s.best_strategy_id

\* create_strategy's parent_id, iteration_nodes.py:204.
ParentOf(s) == s.current_strategy_id

\* submit_backtest_node, iteration_nodes.py:181-257.  A created strategy is
\* kept with the pipeline invocation that created it, what stage 1 left in
\* validation_passed, and the strategy_id its backtest was submitted with
\* (line 233).
submit_backtest_node ==
    /\ pc = "stage2"
    /\ IF ~st.validation_passed
       THEN /\ pc' = "stage3"
            /\ UNCHANGED <<st, created, channels>>
       ELSE \E outcome \in {"connect_error", "create_failed", "submit_failed", "ok"} :
            LET strategy == [id |-> NextStrategyId,
                             parent |-> ParentOf(st),
                             iteration |-> st.current_iteration,
                             invocation |-> Len(handed),
                             validated |-> st.validation_passed,
                             backtest |-> NextStrategyId] IN
            /\ channels' = IF outcome = "connect_error" THEN channels
                           ELSE Closed(Opened, 1)
            /\ created' = IF outcome \in {"submit_failed", "ok"}
                          THEN Append(created, strategy) ELSE created
            /\ pc' = IF outcome = "connect_error" THEN "except" ELSE "stage3"
            /\ st' = CASE outcome = "connect_error" -> st
                       [] outcome = "create_failed" ->
                            Terminate(st, "strategy_creation_failed")
                       [] outcome = "submit_failed" ->
                            [Terminate(st, "backtest_submission_failed") EXCEPT
                                !.generated_strategy_id = strategy.id]
                       [] outcome = "ok" ->
                            [st EXCEPT !.generated_strategy_id = strategy.id,
                                       !.backtest_job_id = TRUE]
    /\ UNCHANGED <<parts, units, backtests, entry, run, pending, ctx, envelope, events, controls,
                   handed, returned>>

\* wait_for_result_node, iteration_nodes.py:273-291: nothing to wait for, or
\* enter the client scope of the polling loop (connect may raise, out of the
\* graph invocation).
wait_for_result_node ==
    /\ pc = "stage3"
    /\ IF ~st.backtest_job_id
       THEN /\ pc' = "stage4"
            /\ UNCHANGED channels
       ELSE \E ok \in BOOLEAN :
               IF ok THEN /\ pc' = "poll"
                          /\ channels' = Opened
                     ELSE /\ pc' = "except"
                          /\ UNCHANGED channels
    /\ UNCHANGED <<parts, units, backtests, entry, run, pending, created, ctx, st, envelope, events,
                   controls, handed, returned>>

\* The results get_backtest_result may hand back for a completed job: an
\* empty dict, or a result whose sharpe_ratio is absent, not a number, or a
\* number.
BacktestResults ==
    {[kind |-> "empty", sharpe |-> NoneSharpe]}
    \cup {[kind |-> "ok", sharpe |-> s] :
             s \in {NoneSharpe, NaNSharpe} \cup FiniteSharpe}

FailedResult == [kind |-> "failed", sharpe |-> NoneSharpe]

\* The polls the loop can make before total_wait reaches BACKTEST_MAX_WAIT.
PollBudget == BACKTEST_MAX_WAIT \div BACKTEST_POLL_INTERVAL

\* How many polls end with nothing decided (the job still queued or running,
\* or an RPC of the poll raising) before the job reports its final status:
\* none, one, and the counts around the budget.
Stalls == {0, 1, PollBudget - 1, PollBudget, PollBudget + 1}

\* A turn of the polling loop in which an undecided poll costs no time.
WaitTurnUncounted(w) ==
    IF w.status # "polling" THEN w
    ELSE IF ~(w.total_wait < BACKTEST_MAX_WAIT)
    THEN [w EXCEPT !.status = "timeout"]
    ELSE IF w.stalls = 0
    THEN [w EXCEPT !.status = w.final, !.polls = @ + 1]
    ELSE [w EXCEPT !.stalls = @ - 1, !.polls = @ + 1]

\* One turn of the while loop of wait_for_result_node,
\* iteration_nodes.py:292-335, on the loop's state: w.status is "polling"
\* until the loop is left, w.stalls the undecided polls still to come.
WaitTurn(w) ==
    IF w.status # "polling" THEN w
    ELSE IF ~(w.total_wait < BACKTEST_MAX_WAIT)
    THEN [w EXCEPT !.status = "timeout"]
    ELSE IF w.stalls = 0
    THEN [w EXCEPT !.status = w.final, !.polls = @ + 1]
    ELSE [w EXCEPT !.total_wait = @ + BACKTEST_POLL_INTERVAL,
                   !.stalls = @ - 1, !.polls = @ + 1]

\* n turns of the loop, the first half of them evaluated before the rest.
RECURSIVE WaitTurns(_, _)
WaitTurns(n, w) ==
    IF n = 0 THEN w
    ELSE IF n = 1 THEN WaitTurn(w)
    ELSE CHOOSE v \in { WaitTurns(n - n \div 2, half) :
                        half \in {WaitTurns(n \div 2, w)} } : TRUE

\* The loop run until it is left, for a job that stalls and then reports final.
WaitLoop(stalls, final) ==
    WaitTurns(PollBudget + 1,
              [status |-> "polling", total_wait |-> 0, polls |-> 0,
               stalls |-> stalls, final |-> final])

\* backtest_result.get("sharpe_ratio", float("-inf")), iteration_nodes.py:453.
SharpeOf(result) == IF result.sharpe = NoneSharpe THEN NegInf ELSE result.sharpe

\* The completed backtests with one more, of this strategy and result: the
\* first of the highest Sharpe is kept.
WithBacktest(b, strategy, result) ==
    IF SharpeOf(result) # NaNSharpe /\ SharpeOf(result) > b.sharpe
    THEN [strategy |-> strategy, sharpe |-> SharpeOf(result)]
    ELSE b

\* wait_for_result_node, iteration_nodes.py:292-342: the polling loop, to the
\* node's return, which leaves the client scope.
PollBacktest ==
    /\ pc = "poll"
    /\ \E stalls \in Stalls, final \in {"completed", "failed", "cancelled"} :
         LET left == WaitLoop(stalls, final) IN
         CASE left.status = "completed" ->
                \E r \in BacktestResults :
                   /\ st' = [st EXCEPT !.backtest_result = r]
                   /\ backtests' = WithBacktest(backtests,
                                                st.generated_strategy_id, r)
           [] left.status = "failed" ->
                /\ st' = [st EXCEPT !.backtest_result = FailedResult]
                /\ UNCHANGED backtests
           [] left.status = "cancelled" ->
                /\ st' = Terminate(st, "backtest_cancelled")
                /\ UNCHANGED backtests
           [] left.status = "timeout" ->
                /\ st' = Terminate(st, "backtest_timeout")
                /\ UNCHANGED backtests
    /\ pc' = "stage4"
    /\ channels' = Closed(channels, 1)
    /\ UNCHANGED <<parts, units, entry, run, pending, created, ctx, envelope, events,
                   controls, handed, returned>>

\* invoke_analyst_node, iteration_nodes.py:392-398: the decision_map lookup
\* with its NEEDS_MODIFICATION default.
MapDecision(decision) ==
    CASE decision = "approve" -> "READY_FOR_LIVE"
      [] decision = "modify"  -> "NEEDS_MODIFICATION"
      [] decision = "archive" -> "ARCHIVE"
      [] OTHER                -> "NEEDS_MODIFICATION"

\* invoke_analyst_node, iteration_nodes.py:358-427.  run_analyst raises, or
\* returns a wire decision ("APPROVE" stands for any string that is no key of
\* decision_map) with or without feedback parts.  As the sources stand the
\* call of lines 373-380 passes keywords run_analyst (analyst/agent.py:84)
\* does not take, so it takes the raising edge.
invoke_analyst_node ==
    /\ pc = "stage4"
    /\ pc' = "stage5"
    /\ IF st.backtest_result.kind \in {"none", "empty"}
       THEN UNCHANGED st
       ELSE IF st.backtest_result.kind = "failed"
       THEN st' = [st EXCEPT !.analyst_decision = "NEEDS_MODIFICATION",
                             !.analyst_feedback = "backtest_failed"]
       ELSE \/ st' = [st EXCEPT !.analyst_decision = "NEEDS_MODIFICATION",
                                !.analyst_feedback = "analyst_exception"]
            \/ \E decision \in {"approve", "modify", "archive", "APPROVE"},
                  feedback \in {"none", "analyst"} :
                 st' = [st EXCEPT !.analyst_decision = MapDecision(decision),
                                  !.analyst_feedback = feedback]
    /\ UNCHANGED <<parts, units, backtests, entry, run, pending, created, ctx, envelope, events,
                   controls, handed, returned, channels>>

\* A new-best test that a draw passes too.
IsNewBestOrEqual(current, best) ==
    current # NaNSharpe /\ best # NaNSharpe /\ current >= best

\* decide_next_node, iteration_nodes.py:465: the new-best test, a float
\* comparison, which is false when either side is not a number.
IsNewBest(current, best) ==
    current # NaNSharpe /\ best # NaNSharpe /\ current > best

\* Termination by decision with the ARCHIVE branch of iteration_nodes.py:491
\* missing.
DecidedWithoutArchive(s) ==
    IF s.analyst_decision = "READY_FOR_LIVE" THEN Terminate(s, "approved") ELSE s

\* decide_next_node, iteration_nodes.py:486-496: termination by decision.
Decided(s) ==
    CASE s.analyst_decision = "READY_FOR_LIVE" -> Terminate(s, "approved")
      [] s.analyst_decision = "ARCHIVE"        -> Terminate(s, "archived")
      [] OTHER                                 -> s

\* decide_next_node, iteration_nodes.py:447-498.  The publish of
\* optimization.new_best may raise, out of the graph invocation.
decide_next_node ==
    /\ pc = "stage5"
    /\ IF st.should_terminate
       THEN /\ pc' = "save"
            /\ UNCHANGED <<st, events>>
       ELSE LET current == SharpeOf(st.backtest_result) IN
            IF IsNewBest(current, st.best_sharpe)
            THEN \/ /\ pc' = "except"
                    /\ UNCHANGED <<st, events>>
                 \/ /\ events' = Emit("optimization.new_best", st.current_iteration)
                    /\ st' = Decided([st EXCEPT !.is_new_best = TRUE,
                                                !.new_best_sharpe = current])
                    /\ pc' = "save"
            ELSE /\ st' = Decided(st)
                 /\ pc' = "save"
                 /\ UNCHANGED events
    /\ UNCHANGED <<parts, units, backtests, entry, run, pending, created, ctx, envelope, controls,
                   handed, returned, channels>>

\* ------------------------------------------- runner: after the pipeline

\* What spec section 4.3 has Save persist for the iteration in state s.
Outcome(s) ==
    [ sharpe   |-> SharpeOf(s.backtest_result),
      strategy |-> s.generated_strategy_id,
      feedback |-> s.analyst_feedback,
      saved    |-> TRUE ]

\* run_optimization, runner.py:124, with save_iteration_result,
\* context.py:152-210: the context is updated, then a terminating result of
\* a reason the method knows issues its control call.
SaveIterationResult ==
    /\ pc = "save"
    /\ ctx' = SavedContext(ctx, st)
    /\ returned' = Append(returned, st.termination_reason)
    /\ pending' = Outcome(st)
    /\ LET action == SaveControlAction(st) IN
       IF action = "none"
       THEN /\ pc' = "pub_completed"
            /\ UNCHANGED <<run, controls>>
       ELSE /\ controls' = Called(action, "save", st.termination_reason)
            /\ \/ /\ run' = ControlOptimization(run, action)
                  /\ pc' = "pub_completed"
               \/ /\ pc' = "except"
                  /\ UNCHANGED run
    /\ UNCHANGED <<parts, units, backtests, entry, created, st, envelope, events, handed, channels>>

\* save_iteration_result, context.py:152-210, called once more with the
\* result it has just saved, before the Runner goes on.
SaveAgain ==
    /\ pc = "pub_completed"
    /\ Len(returned) = Len(handed)
    /\ ctx' = SavedContext(ctx, st)
    /\ returned' = Append(returned, st.termination_reason)
    /\ pending' = Outcome(st)
    /\ LET action == SaveControlAction(st) IN
       IF action = "none"
       THEN UNCHANGED <<pc, run, controls>>
       ELSE /\ controls' = Called(action, "save", st.termination_reason)
            /\ \/ /\ run' = ControlOptimization(run, action)
                  /\ UNCHANGED pc
               \/ /\ pc' = "except"
                  /\ UNCHANGED run
    /\ UNCHANGED <<parts, units, backtests, entry, created, st, envelope, events, handed, channels>>

\* run_optimization, runner.py:127-146: publish iteration.completed, then
\* return if the result terminates the run.
PublishIterationCompleted ==
    /\ pc = "pub_completed"
    /\ \/ /\ pc' = "except"
          /\ UNCHANGED <<events, envelope, channels>>
       \/ /\ events' = Emit("optimization.iteration.completed",
                            ctx.current_iteration - 1)
          /\ IF st.should_terminate
             THEN /\ envelope' = build_result(ctx, st.termination_reason, FALSE)
                  /\ pc' = "returned"
                  /\ channels' = Closed(channels, Depth)
             ELSE /\ pc' = "reload"
                  /\ UNCHANGED <<envelope, channels>>
    /\ UNCHANGED <<parts, units, backtests, entry, run, pending, created, ctx, st, controls, handed,
                   returned>>

\* run_optimization, runner.py:149: the context is replaced by a fresh load,
\* and the while loop tests it.  The pipeline result is not read again, and
\* an outcome the backend has not recorded by now it does not record.
Reload ==
    /\ pc = "reload"
    /\ st' = IdleState
    /\ pending' = NoOutcome
    /\ \/ /\ pc' = "except"
          /\ UNCHANGED ctx
       \/ /\ ctx' = Load(run)
          /\ pc' = LoopPc(ctx')
    /\ UNCHANGED <<parts, units, backtests, entry, run, created, envelope, events,
                   controls, handed, returned, channels>>

\* run_optimization, runner.py:151-163: the except block of an iteration.
HandleException ==
    /\ pc = "except"
    /\ controls' = Called("fail", "except", "iteration_exception")
    /\ channels' = Closed(channels, Depth)
    /\ \/ /\ pc' = "raised"
          /\ UNCHANGED <<run, envelope>>
       \/ /\ run' = ControlOptimization(run, "fail")
          /\ envelope' = build_result(ctx, "exception", TRUE)
          /\ pc' = "returned"
    /\ UNCHANGED <<parts, units, backtests, entry, pending, created, ctx, st, events, handed, returned>>

\* run_optimization, runner.py:165-177: the loop ended.
MaxIterationsReached ==
    /\ pc = "max_iter"
    /\ controls' = Called("complete", "runner", "max_iterations")
    /\ channels' = Closed(channels, Depth)
    /\ \/ /\ pc' = "raised"
          /\ UNCHANGED <<run, envelope>>
       \/ /\ run' = ControlOptimization(run, "complete")
          /\ envelope' = build_result(ctx, "max_iterations", FALSE)
          /\ pc' = "returned"
    /\ UNCHANGED <<parts, units, backtests, entry, pending, created, ctx, st, events, handed, returned>>

\* ------------------------------------------------- the runner standing by

\* A run record nobody works on.
NoRun ==
    [ status |-> "pending", current_iteration |-> 0, max_iterations |-> 1,
      best_strategy_id |-> NoStrategy, best_sharpe |-> NegInf, feedback |-> "none" ]

\* No optimization was called: the Runner's state as constructed.
RunnerIdle ==
    /\ pc = "idle" /\ entry = "run" /\ run = NoRun
    /\ pending = NoOutcome /\ created = <<>> /\ ctx = UnloadedCtx /\ st = IdleState
    /\ envelope = NoEnvelope /\ events = <<>> /\ controls = <<>>
    /\ handed = <<>> /\ returned = <<>> /\ channels = 0 /\ backtests = NoBacktests

\* ------------------------------------------- analyst: submit_decision_node

\* DiagnosisStatus
Decisions == {"READY_FOR_LIVE", "NEEDS_MODIFICATION", "ARCHIVE"}

\* A key the state does not hold.
Absent == -1

\* state.get("current_iteration", 0), nodes.py:347
DefaultCurrentIteration == 0

\* state.get("max_iterations", 10), nodes.py:348
DefaultMaxIterations == 10

CurrentIterationOf(a) ==
    IF a.current_iteration = Absent THEN DefaultCurrentIteration ELSE a.current_iteration

MaxIterationsOf(a) ==
    IF a.max_iterations = Absent THEN DefaultMaxIterations ELSE a.max_iterations

\* A limit that coerces only once current_iteration is past max_iterations.
EnforcedPastLimit(a) ==
    IF CurrentIterationOf(a) > MaxIterationsOf(a) /\ a.decision = "NEEDS_MODIFICATION"
    THEN "ARCHIVE" ELSE a.decision

\* The local decision of submit_decision_node, nodes.py:341-352: coerced to
\* ARCHIVE at the iteration limit.
Enforced(a) ==
    IF CurrentIterationOf(a) >= MaxIterationsOf(a) /\ a.decision = "NEEDS_MODIFICATION"
    THEN "ARCHIVE" ELSE a.decision

\* The event submit_decision_node publishes for a decision, nodes.py:361-414.
DecisionEvent(decision) ==
    CASE decision = "READY_FOR_LIVE"     -> "strategy.approved"
      [] decision = "NEEDS_MODIFICATION" -> "strategy.evolve"
      [] OTHER                           -> "strategy.archived"

\* The Analyst state run_analyst builds, agent.py:106-122: no iteration keys.
AnalystCalled(diagnosis) ==
    [ pc |-> "called", by |-> "run_analyst",
      diagnosis |-> diagnosis, decision |-> "none",
      current_iteration |-> Absent, max_iterations |-> Absent,
      termination_reason |-> "none", published |-> "none" ]

\* The Analyst state handed to submit_decision_node.
AnalystDiagnosed(diagnosis, ci, mx) ==
    [ AnalystCalled(diagnosis) EXCEPT
        !.pc = "submit", !.by = "submit_decision_node", !.decision = diagnosis,
        !.current_iteration = ci, !.max_iterations = mx ]

\* run_analyst is called, or submit_decision_node is called with a state
\* that may carry the iteration keys.
InitAnalyst ==
    /\ RunnerIdle
    /\ UnitsIdle
    /\ consumer = IdleConsumer
    /\ client = IdleClient
    /\ \E d \in Decisions :
         \/ analyst = AnalystCalled(d)
         \/ \E ci \in {Absent} \cup 0..MaxIterations \cup {DefaultMaxIterations},
               mx \in {Absent} \cup 1..MaxIterations :
              analyst = AnalystDiagnosed(d, ci, mx)

\* run_analyst, agent.py:84-129: the graph runs up to generate_diagnosis,
\* which sets the decision.
run_analyst ==
    /\ analyst.pc = "called"
    /\ analyst' = [analyst EXCEPT !.pc = "submit", !.decision = analyst.diagnosis]
    /\ UNCHANGED <<runner, units, consumer, client>>

\* submit_decision_node, nodes.py:320-429: the event of the enforced decision
\* is published (publish_event may raise) and the state update returned is
\* {"termination_reason": ...} or {}.
submit_decision_node ==
    /\ analyst.pc = "submit"
    /\ \/ analyst' = [analyst EXCEPT !.pc = "raised"]
       \/ analyst' = [analyst EXCEPT
                        !.pc = "done",
                        !.published = DecisionEvent(Enforced(analyst)),
                        !.termination_reason =
                            IF Enforced(analyst) # analyst.decision
                            THEN "max_iterations_reached" ELSE @ ]
    /\ UNCHANGED <<runner, units, consumer, client>>

NextAnalyst ==
    \/ run_analyst
    \/ submit_decision_node

SpecAnalyst == InitAnalyst /\ [][NextAnalyst]_vars

\* -------------------------------------------- messaging: subscribe's consumer

\* What a delivered message does to the loop body of subscribe: it parses and
\* the handler returns, the handler raises, or json.loads raises.
MessageKinds == {"ok", "handler_raises", "unparsable"}

RECURSIVE Queues(_)
\* The queues of at most n messages.
Queues(n) ==
    IF n = 0 THEN {<<>>}
    ELSE Queues(n - 1) \cup
         { Append(q, k) : q \in { r \in Queues(n - 1) : Len(r) = n - 1 },
                          k \in MessageKinds }

\* The body of the try block of messaging.py:156-162 raises.
Raises(kind) == kind # "ok"

\* What "except Exception" of messaging.py:163 catches: the handler's
\* exception and the parse error alike.
Caught(kind) == kind \in {"handler_raises", "unparsable"}

\* message.process() at its exit: the message is acknowledged unless an
\* exception leaves the block, and then it is rejected.
Settled(kind) == IF Raises(kind) /\ ~Caught(kind) THEN "rejected" ELSE "acked"

\* subscribe has bound its queue, messaging.py:129-150.
InitConsumer ==
    /\ RunnerIdle
    /\ UnitsIdle
    /\ analyst = IdleAnalyst
    /\ client = IdleClient
    /\ \E q \in Queues(MaxMessages) :
         consumer = [pc |-> "consuming", queue |-> q, log |-> <<>>]

\* subscribe, messaging.py:150-171: one message taken from the iterator and
\* processed.
ConsumeMessage ==
    /\ consumer.pc = "consuming"
    /\ consumer.queue # <<>>
    /\ LET kind == Head(consumer.queue) IN
       consumer' = [consumer EXCEPT
                      !.queue = Tail(@),
                      !.log = Append(@, [kind    |-> kind,
                                         handled |-> ~Raises(kind),
                                         settled |-> Settled(kind)])]
    /\ UNCHANGED <<runner, units, analyst, client>>

NextConsumer == ConsumeMessage

SpecConsumer == InitConsumer /\ [][NextConsumer]_vars

\* ---------------------------------------- grpc client: FreqSearchClient scope

\* FreqSearchClient.__init__, client.py:202-225: no channel; open counts the
\* channels established and not closed, ways the ways out of the blocks.
NewClient == [pc |-> "out", channel |-> FALSE, open |-> 0, ways |-> <<>>]

\* A FreqSearchClient is constructed and used in scoped blocks.
InitClient ==
    /\ RunnerIdle
    /\ UnitsIdle
    /\ analyst = IdleAnalyst
    /\ consumer = IdleConsumer
    /\ client = NewClient

\* The block is left by way: control is outside it again.
Left(c, way) == [c EXCEPT !.pc = "out", !.ways = Append(@, way)]

\* __aenter__ with connect, client.py:227-243 and 253-256: a client that
\* holds a channel skips connecting; otherwise insecure_channel may raise,
\* leaving no channel, or the channel is stored and health_check raises, or
\* it succeeds. Either failure raises ConnectionError out of the async
\* with, whose __aexit__ is then not called.
Enter ==
    /\ client.pc = "out"
    /\ Len(client.ways) < MaxUses
    /\ IF client.channel
       THEN client' = [client EXCEPT !.pc = "body"]
       ELSE \/ client' = Left(client, "channel_failed")
            \/ client' = Left([client EXCEPT !.channel = TRUE, !.open = @ + 1],
                              "health_check_failed")
            \/ client' = [client EXCEPT !.pc = "body", !.channel = TRUE,
                                         !.open = @ + 1]
    /\ UNCHANGED <<runner, units, analyst, consumer>>

\* The body of the async with ends, normally or by an exception.
Body ==
    /\ client.pc = "body"
    /\ \E way \in {"normal", "exception"} :
         client' = [client EXCEPT !.pc = way]
    /\ UNCHANGED <<runner, units, analyst, consumer>>

\* close, client.py:245-251: the channel, if any, is closed and forgotten.
close(c) == IF c.channel THEN [c EXCEPT !.channel = FALSE, !.open = @ - 1] ELSE c

\* __aexit__, client.py:258-260, called on either way out of the body.
Exit ==
    /\ client.pc \in {"normal", "exception"}
    /\ client' = Left(close(client), client.pc)
    /\ UNCHANGED <<runner, units, analyst, consumer>>

NextClient ==
    \/ Enter
    \/ Body
    \/ Exit

SpecClient == InitClient /\ [][NextClient]_vars

\* ------------------------------- messaging: tasks sharing the global broker

\* The runs executing as tasks of one event loop.
Tasks == 1..MaxTasks

\* get_broker, messaging.py:175-183: one MessageBroker for the process,
\* either connected at start-up (main.py:223-224) or as constructed
\* (messaging.py:53-57), with each task about to publish an event.
InitBus ==
    /\ RunnerIdle
    /\ PartsIdle
    /\ outbox = IdleOutbox /\ calls = IdleCalls /\ loop = IdleLoop
    /\ \E connected \in BOOLEAN :
         bus = [ connection |-> connected, channel |-> connected,
                 exchange |-> connected, task |-> [t \in Tasks |-> "start"],
                 connections |-> IF connected THEN 1 ELSE 0 ]

\* The task t of the bus at position p.
At(b, t, p) == [b EXCEPT !.task[t] = p]

\* publish_event with MessageBroker.publish, messaging.py:90-112 and
\* 186-213, up to its first suspension: with an exchange the message is
\* sent; without one connect is awaited, which returns at once when a
\* connection is already stored (messaging.py:61-62), and then the publish on
\* the exchange that is still None raises; otherwise connect_robust is
\* awaited.
StartPublish(t) ==
    /\ bus.task[t] = "start"
    /\ bus' = IF bus.exchange THEN At(bus, t, "send")
              ELSE IF bus.connection THEN At(bus, t, "raised")
              ELSE At(bus, t, "connect_robust")
    /\ UNCHANGED <<runner, parts, outbox, calls, loop>>

\* MessageBroker.connect, messaging.py:64-66: connect_robust returned, the
\* connection (one more of the process) is stored and the channel awaited.
Connected(t) ==
    /\ bus.task[t] = "connect_robust"
    /\ bus' = At([bus EXCEPT !.connection = TRUE, !.connections = @ + 1],
                 t, "channel")
    /\ UNCHANGED <<runner, parts, outbox, calls, loop>>

\* MessageBroker.connect, messaging.py:67-68: the channel is stored and
\* set_qos awaited.
ChannelOpened(t) ==
    /\ bus.task[t] = "channel"
    /\ bus' = At([bus EXCEPT !.channel = TRUE], t, "set_qos")
    /\ UNCHANGED <<runner, parts, outbox, calls, loop>>

\* MessageBroker.connect, messaging.py:68-75: set_qos returned and
\* declare_exchange is awaited.
QosSet(t) ==
    /\ bus.task[t] = "set_qos"
    /\ bus' = At(bus, t, "declare_exchange")
    /\ UNCHANGED <<runner, parts, outbox, calls, loop>>

\* MessageBroker.connect, messaging.py:71-80, and publish, messaging.py:
\* 105-111: the exchange is stored, connect returns and the message is sent.
ExchangeDeclared(t) ==
    /\ bus.task[t] = "declare_exchange"
    /\ bus' = At([bus EXCEPT !.exchange = TRUE], t, "send")
    /\ UNCHANGED <<runner, parts, outbox, calls, loop>>

\* MessageBroker.publish, messaging.py:111-112: the exchange took the message.
Sent(t) ==
    /\ bus.task[t] = "send"
    /\ bus' = At(bus, t, "published")
    /\ UNCHANGED <<runner, parts, outbox, calls, loop>>

NextBus ==
    \E t \in Tasks :
       \/ StartPublish(t)
       \/ Connected(t)
       \/ ChannelOpened(t)
       \/ QosSet(t)
       \/ ExchangeDeclared(t)
       \/ Sent(t)

SpecBus == InitBus /\ [][NextBus]_vars

\* ------------------------------------------------ messaging: publish_event

\* A field of an event body: absent from the dict, an empty (falsy) value, a
\* value the caller supplied, or the n-th value publish_event generated.
Field(kind, n) == [kind |-> kind, n |-> n]

\* The bodies a caller hands to publish_event.
Bodies ==
    [ event_id  : {Field("absent", 0), Field("empty", 0), Field("caller", 0)},
      timestamp : {Field("absent", 0), Field("caller", 0)},
      source    : {Field("absent", 0), Field("caller", 0)} ]

\* publish_event filling event_id whatever the caller supplied.
WithEnvelopeOverwriting(body, n) ==
    [ event_id  |-> Field("uuid4", n),
      timestamp |-> IF body.timestamp.kind = "absent"
                    THEN Field("now", n) ELSE body.timestamp,
      source    |-> IF body.source.kind = "absent"
                    THEN Field("python-agents", 0) ELSE body.source ]

\* publish_event, messaging.py:200-210: the body with its envelope fields, n
\* the number of the call, which uuid4 and now turn into fresh values.
WithEnvelope(body, n) ==
    [ event_id  |-> IF body.event_id.kind \in {"absent", "empty"}
                    THEN Field("uuid4", n) ELSE body.event_id,
      timestamp |-> IF body.timestamp.kind = "absent"
                    THEN Field("now", n) ELSE body.timestamp,
      source    |-> IF body.source.kind = "absent"
                    THEN Field("python-agents", 0) ELSE body.source ]

\* No call of publish_event was made.
InitOutbox ==
    /\ RunnerIdle
    /\ PartsIdle
    /\ bus = IdleBus /\ calls = IdleCalls /\ loop = IdleLoop
    /\ outbox = [pc |-> "ready", log |-> <<>>]

\* publish_event, messaging.py:186-213: the envelope fields are filled in
\* and the body handed to the broker, whose publish may raise.
publish_event ==
    /\ outbox.pc = "ready"
    /\ Len(outbox.log) < MaxPublishes
    /\ \E body \in Bodies, published \in BOOLEAN :
         outbox' = [outbox EXCEPT
                      !.log = Append(@, [given     |-> body,
                                         sent      |-> WithEnvelope(body, Len(@) + 1),
                                         published |-> published])]
    /\ UNCHANGED <<runner, parts, bus, calls, loop>>

NextOutbox == publish_event

SpecOutbox == InitOutbox /\ [][NextOutbox]_vars

\* ------------------------------------------ the loops, turn by turn

\* The retry loop of stage 1 entered, iteration_nodes.py:55-69: any number
\* of failing turns up to the limit, then a turn that does not fail.
InitEngineer ==
    /\ RunnerIdle
    /\ PartsIdle
    /\ bus = IdleBus /\ outbox = IdleOutbox /\ calls = IdleCalls
    /\ \E fails \in 0..MAX_VALIDATION_RETRIES,
          last \in {"raise", "no_code", "valid", "rpc_error"} :
         loop = [status |-> "looping", validation_retry_count |-> 0,
                 engineer_runs |-> 0, fails |-> fails, last |-> last]

\* One turn of the loop, or the fall out of it, iteration_nodes.py:69-165.
EngineerStep ==
    /\ loop.status = "looping"
    /\ loop' = EngineerTurn(loop)
    /\ UNCHANGED <<runner, parts, bus, outbox, calls>>

NextEngineer == EngineerStep

SpecEngineer == InitEngineer /\ [][NextEngineer]_vars

\* What get_backtest_job returns, client.py:620-646: the job's status under
\* "job" (line 641 reads it there), with or without a "status" key of the
\* response itself.
Shapes == {"nested", "flat"}

\* job_response.get("status", "unknown"), iteration_nodes.py:295.
StatusRead(shape, status) == IF shape = "flat" THEN status ELSE "unknown"

\* The polling loop of stage 3 entered, iteration_nodes.py:289-292, for a
\* job that reports final after job_stalls polls: a poll that reads no final
\* status is one more undecided poll.
InitWait ==
    /\ RunnerIdle
    /\ PartsIdle
    /\ bus = IdleBus /\ outbox = IdleOutbox /\ calls = IdleCalls
    /\ \E stalls \in Stalls, final \in {"completed", "failed", "cancelled"},
          shape \in Shapes :
         loop = [status |-> "polling", total_wait |-> 0, polls |-> 0,
                 stalls |-> IF StatusRead(shape, final) = "unknown"
                            THEN PollBudget + 1 ELSE stalls,
                 final |-> final, job_stalls |-> stalls, shape |-> shape]

\* One poll of the loop, or the fall out of it, iteration_nodes.py:292-342.
WaitStep ==
    /\ loop.status = "polling"
    /\ loop' = WaitTurn(loop)
    /\ UNCHANGED <<runner, parts, bus, outbox, calls>>

NextWait == WaitStep

SpecWait == InitWait /\ [][NextWait]_vars

\* ------------------------------------------ the graph with the loop inside

\* route_after_decision with the ARCHIVE test ahead of the iteration limit.
route_archive_first(s) ==
    IF s.errors THEN "fail"
    ELSE IF s.analyst_decision = "READY_FOR_LIVE" THEN "complete"
    ELSE IF s.analyst_decision = "ARCHIVE" THEN "archive"
    ELSE IF s.current_iteration >= s.max_iterations - 1 THEN "complete"
    ELSE IF s.analyst_decision = "NEEDS_MODIFICATION"
    THEN IF s.analyst_feedback = "none" THEN "fail" ELSE "iterate"
    ELSE "fail"

\* route_after_decision, orchestrator/agent.py:76-120.
route_after_decision(s) ==
    IF s.errors THEN "fail"
    ELSE IF s.analyst_decision = "READY_FOR_LIVE" THEN "complete"
    ELSE IF s.current_iteration >= s.max_iterations - 1 THEN "complete"
    ELSE IF s.analyst_decision = "ARCHIVE" THEN "archive"
    ELSE IF s.analyst_decision = "NEEDS_MODIFICATION"
    THEN IF s.analyst_feedback = "none" THEN "fail" ELSE "iterate"
    ELSE "fail"

\* The node a route key leads to, orchestrator/agent.py:160-169.
RouteTarget(route) ==
    CASE route = "iterate" -> "increment_iteration"
      [] route = "fail"    -> "handle_failure"
      [] OTHER             -> "complete"

\* run_orchestrator, orchestrator/agent.py:231-262: the initial state handed
\* to the graph, at its entry point.
InitLegacy ==
    /\ RunnerIdle
    /\ PartsIdle
    /\ bus = IdleBus /\ outbox = IdleOutbox /\ calls = IdleCalls
    /\ \E mx \in 1..MaxLegacyIterations :
         loop = [status |-> "initialize", current_iteration |-> 0,
                 max_iterations |-> mx, errors |-> FALSE,
                 analyst_decision |-> "none", analyst_feedback |-> "none",
                 engineer_runs |-> 0, route |-> "none", ended |-> 0]

\* initialize_run_node, orchestrator/nodes.py:19-75: its publish may raise,
\* out of the graph.
initialize_run_node ==
    /\ loop.status = "initialize"
    /\ \/ loop' = [loop EXCEPT !.status = "raised"]
       \/ loop' = [loop EXCEPT !.status = "invoke_engineer"]
    /\ UNCHANGED <<runner, parts, bus, outbox, calls>>

\* invoke_engineer to process_decision, orchestrator/agent.py:153-169 with
\* orchestrator/nodes.py:78-767: the Engineer is run unless the node gave up
\* before (an error), the later nodes leave a decision, a feedback and
\* possibly errors, and process_decision's publishes may raise; then the
\* route is taken.
LegacyTurn ==
    /\ loop.status = "invoke_engineer"
    /\ \E ran \in BOOLEAN, failed \in BOOLEAN,
          decision \in Decisions \cup {"none"}, feedback \in {"none", "text"} :
         LET after == [loop EXCEPT
                         !.errors = @ \/ ~ran \/ failed,
                         !.engineer_runs = IF ran THEN @ + 1 ELSE @,
                         !.analyst_decision = decision,
                         !.analyst_feedback = feedback] IN
         \/ loop' = [after EXCEPT !.status = "raised"]
         \/ loop' = [after EXCEPT
                       !.route = route_after_decision(after),
                       !.status = RouteTarget(route_after_decision(after))]
    /\ UNCHANGED <<runner, parts, bus, outbox, calls>>

\* increment_iteration_node, orchestrator/nodes.py:770-796.
increment_iteration_node ==
    /\ loop.status = "increment_iteration"
    /\ loop' = [loop EXCEPT !.current_iteration = @ + 1,
                            !.analyst_decision = "none",
                            !.status = "invoke_engineer"]
    /\ UNCHANGED <<runner, parts, bus, outbox, calls>>

\* complete_optimization_node and handle_failure_node,
\* orchestrator/nodes.py:799-950: the publish may raise; else the graph ends.
TerminalNode ==
    /\ loop.status \in {"complete", "handle_failure"}
    /\ \/ loop' = [loop EXCEPT !.status = "raised"]
       \/ loop' = [loop EXCEPT !.status = "end", !.ended = @ + 1]
    /\ UNCHANGED <<runner, parts, bus, outbox, calls>>

NextLegacy ==
    \/ initialize_run_node
    \/ LegacyTurn
    \/ increment_iteration_node
    \/ TerminalNode

SpecLegacy == InitLegacy /\ [][NextLegacy]_vars

\* ------------------------------------------ the Engineer's own retries

\* should_retry that gives up only once retry_count is past max_retries.
should_retry_past(s) ==
    IF s.validation_passed THEN "continue"
    ELSE IF s.retry_count > s.max_retries THEN "fail"
    ELSE "retry"

\* should_retry, engineer/agent.py:35-55.
should_retry(s) ==
    IF s.validation_passed THEN "continue"
    ELSE IF s.retry_count >= s.max_retries THEN "fail"
    ELSE "retry"

\* run_engineer, engineer/agent.py:138-154: the initial state, at the
\* generate node (analyze and rag_lookup change none of these fields).
InitCodegen ==
    /\ RunnerIdle
    /\ PartsIdle
    /\ bus = IdleBus /\ outbox = IdleOutbox /\ calls = IdleCalls
    /\ \E mode \in {"new", "evolve"}, mx \in 1..MaxRetries :
         loop = [status |-> "generate", mode |-> mode, retry_count |-> 0,
                 max_retries |-> mx, validation_passed |-> FALSE,
                 generations |-> 0, published |-> FALSE]

\* generate_code_node, engineer/nodes.py:189-258: the LLM call may raise.
generate_code_node ==
    /\ loop.status = "generate"
    /\ \/ loop' = [loop EXCEPT !.status = "raised"]
       \/ loop' = [loop EXCEPT !.status = "validate",
                               !.retry_count = @ + 1,
                               !.generations = @ + 1]
    /\ UNCHANGED <<runner, parts, bus, outbox, calls>>

\* validate_code_node, engineer/nodes.py:328-374, and the conditional edge
\* of engineer/agent.py:92-100; metadata and hyperopt lead on to submit.
validate_code_node ==
    /\ loop.status = "validate"
    /\ \E passed \in BOOLEAN :
         LET after == [loop EXCEPT !.validation_passed = passed] IN
         loop' = [after EXCEPT
                    !.status = CASE should_retry(after) = "retry"    -> "generate"
                                 [] should_retry(after) = "continue" -> "submit"
                                 [] should_retry(after) = "fail"     -> "end"]
    /\ UNCHANGED <<runner, parts, bus, outbox, calls>>

\* submit_node, engineer/nodes.py:537-582: publishes only a validated
\* strategy; the publish may raise.
submit_node ==
    /\ loop.status = "submit"
    /\ IF ~loop.validation_passed
       THEN loop' = [loop EXCEPT !.status = "end"]
       ELSE \/ loop' = [loop EXCEPT !.status = "raised"]
            \/ loop' = [loop EXCEPT !.status = "end", !.published = TRUE]
    /\ UNCHANGED <<runner, parts, bus, outbox, calls>>

NextCodegen ==
    \/ generate_code_node
    \/ validate_code_node
    \/ submit_node

SpecCodegen == InitCodegen /\ [][NextCodegen]_vars

\* ------------------------------------------ mapping functions, applied

\* grpc.StatusCode of an RpcError: every code but OK.
StatusCodes ==
    { "CANCELLED", "UNKNOWN", "INVALID_ARGUMENT", "DEADLINE_EXCEEDED",
      "NOT_FOUND", "ALREADY_EXISTS", "PERMISSION_DENIED", "RESOURCE_EXHAUSTED",
      "FAILED_PRECONDITION", "ABORTED", "OUT_OF_RANGE", "UNIMPLEMENTED",
      "INTERNAL", "UNAVAILABLE", "DATA_LOSS", "UNAUTHENTICATED" }

\* _map_grpc_error, client.py:86-105: the class of the exception raised for
\* a status code, error_map with its FreqSearchClientError default.
map_grpc_error(code) ==
    CASE code = "NOT_FOUND"           -> "NotFoundError"
      [] code = "INVALID_ARGUMENT"    -> "ValidationError"
      [] code = "FAILED_PRECONDITION" -> "ValidationError"
      [] code = "OUT_OF_RANGE"        -> "ValidationError"
      [] code = "INTERNAL"            -> "InternalError"
      [] code = "UNKNOWN"             -> "InternalError"
      [] code = "DATA_LOSS"           -> "InternalError"
      [] code = "UNAVAILABLE"         -> "ConnectionError"
      [] code = "DEADLINE_EXCEEDED"   -> "TimeoutError"
      [] code = "CANCELLED"           -> "CancelledError"
      [] OTHER                        -> "FreqSearchClientError"

\* Values of the "decision" key of what run_analyst returns: the wire names
\* of decision_map in three letter cases, the DiagnosisStatus values
\* submit_decision_node leaves there, and no key at all.
WireDecisions ==
    { "approve", "Approve", "APPROVE", "modify", "Modify", "MODIFY",
      "archive", "Archive", "ARCHIVE", "READY_FOR_LIVE", "NEEDS_MODIFICATION",
      "absent" }

\* analyst_result.get("decision", "modify"), iteration_nodes.py:390.
DecisionOf(wire) == IF wire = "absent" THEN "modify" ELSE wire

\* No mapping function was applied.
InitCalls ==
    /\ RunnerIdle
    /\ PartsIdle
    /\ bus = IdleBus /\ outbox = IdleOutbox /\ loop = IdleLoop
    /\ calls = <<>>

\* A failed RPC: the client raises _map_grpc_error(e), client.py:86-105.
RaiseMapped ==
    /\ Len(calls) < MaxCalls
    /\ \E code \in StatusCodes :
         calls' = Append(calls, [fn |-> "map_grpc_error", arg |-> code,
                                 out |-> map_grpc_error(code)])
    /\ UNCHANGED <<runner, parts, bus, outbox, loop>>

\* invoke_analyst_node, iteration_nodes.py:390-398: the decision of the
\* Analyst's result mapped through decision_map.
MapAnalystDecision ==
    /\ Len(calls) < MaxCalls
    /\ \E wire \in WireDecisions :
         calls' = Append(calls, [fn |-> "decision_map", arg |-> wire,
                                 out |-> MapDecision(DecisionOf(wire))])
    /\ UNCHANGED <<runner, parts, bus, outbox, loop>>

NextCalls ==
    \/ RaiseMapped
    \/ MapAnalystDecision

SpecCalls == InitCalls /\ [][NextCalls]_vars

\* ------------------------------------------------ backend, on its own

\* The runner reads or writes the run record in its next step.
AtRunRecord == pc \in {"r_load", "load", "resume", "save", "reload", "except", "max_iter"}

\* The backend records the outcome of the iteration just saved; the runner
\* can tell only at its next load.
BackendRecord ==
    /\ pc = "reload"
    /\ pending.saved
    /\ run.status \notin Terminal
    /\ run.current_iteration < run.max_iterations
    /\ run' = Recorded(run, pending)
    /\ pending' = NoOutcome
    /\ UNCHANGED <<parts, units, backtests, pc, entry, created, ctx, st, envelope, events, controls,
                   handed, returned, channels>>

\* The run is cancelled from outside (spec section 5).
BackendCancel ==
    /\ AtRunRecord
    /\ run.status \notin Terminal
    /\ run' = [run EXCEPT !.status = "cancelled"]
    /\ UNCHANGED <<parts, units, backtests, pc, entry, pending, created, ctx, st, envelope, events,
                   controls, handed, returned, channels>>

Next ==
    \/ Connect
    \/ InitialLoad
    \/ ControlResume
    \/ PublishIterationStarted
    \/ validate_and_engineer_node
    \/ submit_backtest_node
    \/ wait_for_result_node
    \/ PollBacktest
    \/ invoke_analyst_node
    \/ decide_next_node
    \/ SaveIterationResult
    \/ PublishIterationCompleted
    \/ Reload
    \/ HandleException
    \/ MaxIterationsReached
    \/ BackendRecord
    \/ BackendCancel

Spec == Init /\ [][Next]_vars

\* A run whose caller may save an iteration result twice.
NextResave ==
    \/ Next
    \/ SaveAgain

SpecResave == Init /\ [][NextResave]_vars

NextEither ==
    \/ ResumeConnect
    \/ ResumeLoad
    \/ Next

SpecEither == InitEither /\ [][NextEither]_vars

\* ================================================================ claims

IterationPcs == {"stage1", "stage2", "stage3", "poll", "stage4", "stage5", "save"}

TerminalEventKeys == {"optimization.completed", "optimization.failed"}

\* Positions of events that are one of the two terminal events.
TerminalEvents == {i \in 1..Len(events) : events[i].key \in TerminalEventKeys}

\* Some control_optimization call with this action was issued.
ControlIssued(action) == \E j \in 1..Len(controls) : controls[j].action = action

\* C1: every terminal path of run_optimization (the already-complete return
\* aside) has emitted exactly one of optimization.completed and
\* optimization.failed when it returns.
C1_ExactlyOneTerminalEvent ==
    (pc = "returned" /\ envelope.termination_reason # "already_complete")
        => Cardinality(TerminalEvents) = 1

\* C2: no exception propagates out of run_optimization, and a run in which
\* an exception was raised has called control_optimization(fail) and
\* returned an envelope with status failed.
C2_NoExceptionPropagates ==
    /\ pc # "raised"
    /\ (pc = "returned" /\ envelope.error)
           => (ControlIssued("fail") /\ envelope.status = "failed")

\* C3: when run_optimization returns after an iteration that terminated with
\* backtest_timeout, backtest_cancelled or strategy_creation_failed, a
\* control_optimization(fail) call has been issued.
C3_StageFailureMarksRunFailed ==
    pc = "returned" =>
        \A i \in 1..Len(returned) :
            returned[i] \in {"backtest_timeout", "backtest_cancelled",
                             "strategy_creation_failed"}
                => ControlIssued("fail")

\* The action spec section 4.3 has save issue for a terminal decision.
MatchingAction(reason) == IF reason = "approved" THEN "complete" ELSE "fail"

\* C4: for every saved pipeline result whose termination_reason is approved,
\* archived or validation_max_retries, save has called control_optimization
\* with the matching action: complete for approved, fail for the other two.
C4_SaveIssuesMatchingAction ==
    \A i \in 1..Len(returned) :
        returned[i] \in {"approved", "archived", "validation_max_retries"}
            => \E j \in 1..Len(controls) :
                   /\ controls[j].by = "save"
                   /\ controls[j].reason = returned[i]
                   /\ controls[j].action = MatchingAction(returned[i])

\* C5: within a run the best_sharpe of the run context, which every later
\* iteration is handed and the result envelope reports, never decreases
\* from one step to the next, saves and reloads included.
C5_BestSharpeNeverDecreases ==
    [][ctx.status # "unloaded" => ctx'.best_sharpe >= ctx.best_sharpe]_vars

\* C6: the iteration index handed to pipeline invocation n+1 is the index
\* handed to invocation n plus one.
C6_IndexAdvancesByOne ==
    \A n \in 1..(Len(handed) - 1) :
        handed[n + 1].iteration = handed[n].iteration + 1

\* C7: whatever number of validation retries stage 1 made, the state it
\* returns and the later stages pass on carries the current_iteration the
\* invocation was handed, the run context keeps that index until the save,
\* and after the save the context's index is that index plus exactly one.
C7_RetriesLeaveIterationCounter ==
    /\ pc \in (IterationPcs \ {"stage1"}) =>
           /\ st.current_iteration = handed[Len(handed)].iteration
           /\ ctx.current_iteration = st.current_iteration
    /\ pc \in {"pub_completed", "reload"} =>
           ctx.current_iteration = st.current_iteration + 1

\* C7 witness: an iteration whose stage 1 retried validation as often as it
\* can and still passed has been saved, with the index advanced by one.
C7_Witness ==
    /\ pc = "pub_completed"
    /\ st.validation_passed
    /\ st.validation_retry_count = MAX_VALIDATION_RETRIES - 1
    /\ ctx.current_iteration = st.current_iteration + 1

\* C8: the run context, once loaded, always has
\* 0 <= current_iteration <= max_iterations, and every pipeline invocation
\* was handed an index below max_iterations.
C8_IterationWithinBounds ==
    /\ ctx.status # "unloaded" =>
           (0 <= ctx.current_iteration /\ ctx.current_iteration <= ctx.max_iterations)
    /\ \A i \in 1..Len(handed) : handed[i].iteration < run.max_iterations

\* C8 witness: the loop ended after a pipeline invocation because the index
\* reached max_iterations.
C8_Witness ==
    /\ pc = "max_iter"
    /\ handed # <<>>
    /\ ctx.current_iteration = ctx.max_iterations

\* C9: an envelope with termination_reason max_iterations reports
\* iterations_completed equal to max_iterations, and no pipeline result of
\* that run terminated as approved.
C9_MaxIterationsEnvelope ==
    (pc = "returned" /\ envelope.termination_reason = "max_iterations") =>
        /\ envelope.iterations_completed = envelope.max_iterations
        /\ \A i \in 1..Len(returned) : returned[i] # "approved"

\* C9 witness: a run that invoked the pipeline returned the max_iterations
\* envelope.
C9_Witness ==
    /\ pc = "returned"
    /\ envelope.termination_reason = "max_iterations"
    /\ returned # <<>>

\* C10: when the first load of run_optimization or resume_optimization finds
\* the status completed, failed or cancelled, the call has returned the
\* already-complete envelope having issued no control_optimization call,
\* invoked no pipeline stage, created no strategy and emitted no event.
C10_TerminalRunUntouched ==
    (ctx.status \in Terminal /\ handed = <<>>) =>
        /\ pc = "returned"
        /\ envelope.termination_reason = "already_complete"
        /\ controls = <<>>
        /\ events = <<>>
        /\ created = <<>>
        /\ st = IdleState

\* C10 witness: resume_optimization returned for a run it loaded as cancelled.
C10_Witness ==
    /\ entry = "resume"
    /\ pc = "returned"
    /\ ctx.status = "cancelled"
    /\ envelope.termination_reason = "already_complete"

\* C11: once a reload after an iteration has reported a terminal status
\* (the run was cancelled), the Runner hands no further iteration to the
\* pipeline and issues no further control_optimization call.
C11_CancellationStopsRun ==
    [][(ctx.status \in Terminal /\ handed # <<>>)
          => (handed' = handed /\ controls' = controls)]_vars

\* Keys of the events from the latest iteration.started on.
RECURSIVE KeysFromLastStart(_)
KeysFromLastStart(n) ==
    IF n = 0 THEN <<>>
    ELSE IF events[n].key = "optimization.iteration.started"
    THEN <<events[n].key>>
    ELSE Append(KeysFromLastStart(n - 1), events[n].key)

\* The orders spec section 5 allows within an iteration whose backtest was
\* submitted and completed.
IterationOrders ==
    { <<"optimization.iteration.started", "backtest.submitted",
        "backtest.completed", "optimization.iteration.completed">>,
      <<"optimization.iteration.started", "backtest.submitted",
        "backtest.completed", "optimization.new_best",
        "optimization.iteration.completed">> }

\* C12: when iteration.completed has been published for an iteration whose
\* backtest was submitted and completed, the events of that iteration are
\* iteration.started, backtest.submitted, backtest.completed, new_best if
\* any, iteration.completed, in this order; and a terminal event of the run
\* comes after every iteration.completed.
C12_EventOrder ==
    /\ ( /\ events # <<>>
         /\ events[Len(events)].key = "optimization.iteration.completed"
         /\ st.backtest_result.kind \in {"ok", "empty"} )
           => KeysFromLastStart(Len(events)) \in IterationOrders
    /\ \A i \in TerminalEvents : \A j \in 1..Len(events) :
           events[j].key = "optimization.iteration.completed" => j < i

\* Positions of the iteration.completed events that close the iteration
\* started at position i: same index, no other iteration.started between.
Closing(i) ==
    { j \in (i + 1)..Len(events) :
        /\ events[j].key = "optimization.iteration.completed"
        /\ events[j].iteration = events[i].iteration
        /\ \A k \in (i + 1)..(j - 1) :
               events[k].key # "optimization.iteration.started" }

\* C13: when run_optimization has returned, every iteration.started is
\* preceded by no backtest event of its iteration and followed by exactly
\* one iteration.completed of the same index, however the iteration ended.
C13_EveryIterationCompleted ==
    pc = "returned" =>
        \A i \in 1..Len(events) :
            events[i].key = "optimization.iteration.started"
                => Cardinality(Closing(i)) = 1

\* C14: the state the pipeline returns terminates with approved for
\* READY_FOR_LIVE, with archived for ARCHIVE and not at all for
\* NEEDS_MODIFICATION; a terminating decision is never followed by a reload
\* and its envelope, unless an exception ended the run, carries that
\* reason; and the loop starts an iteration exactly when
\* current_iteration < max_iterations.
C14_DecisionDecidesRun ==
    /\ pc \in {"save", "pub_completed", "reload"} =>
          /\ st.analyst_decision = "READY_FOR_LIVE" =>
                (st.should_terminate /\ st.termination_reason = "approved")
          /\ st.analyst_decision = "ARCHIVE" =>
                (st.should_terminate /\ st.termination_reason = "archived")
          /\ st.analyst_decision = "NEEDS_MODIFICATION" => ~st.should_terminate
    /\ pc = "reload" => st.analyst_decision \notin {"READY_FOR_LIVE", "ARCHIVE"}
    /\ (pc = "returned" /\ ~envelope.error /\ st.analyst_decision = "READY_FOR_LIVE")
          => envelope.termination_reason = "approved"
    /\ (pc = "returned" /\ ~envelope.error /\ st.analyst_decision = "ARCHIVE")
          => envelope.termination_reason = "archived"
    /\ pc = "pub_started" => ctx.current_iteration < ctx.max_iterations
    /\ pc = "max_iter" => ~(ctx.current_iteration < ctx.max_iterations)

\* C14 witness: a NEEDS_MODIFICATION iteration was followed by the start of
\* the next, which the Analyst approved, and the run returned approved.
C14_Witness ==
    /\ pc = "returned"
    /\ Len(handed) > 1
    /\ st.analyst_decision = "READY_FOR_LIVE"
    /\ envelope.termination_reason = "approved"

\* C15: when a run ends completed (approved or at its iteration limit), the
\* envelope's best_sharpe is the highest Sharpe among the best the run was
\* loaded with and the backtests completed since, and best_strategy_id is
\* the strategy of the iteration that achieved it when a backtest of the run
\* did.
C15_EnvelopeCarriesBest ==
    (/\ pc = "returned"
     /\ handed # <<>>
     /\ ~envelope.error
     /\ envelope.termination_reason \in {"approved", "max_iterations"})
       => IF backtests.sharpe > handed[1].best_sharpe
          THEN /\ envelope.best_sharpe = backtests.sharpe
               /\ envelope.best_strategy_id = backtests.strategy
          ELSE envelope.best_sharpe = handed[1].best_sharpe

\* C16: resume_optimization, once it has loaded a run that is not complete,
\* is at the call of run_optimization with nothing else done: nothing
\* published, no control call, no iteration handed out, no result built; and
\* the first iteration of either entry continues where the persisted run
\* stands: at its current_iteration, with its latest feedback and its best
\* Sharpe.
C16_ResumeIsRun ==
    /\ (entry = "resume" /\ pc = "open") =>
          /\ events = <<>> /\ controls = <<>> /\ handed = <<>> /\ returned = <<>>
          /\ created = <<>> /\ pending = NoOutcome /\ backtests = NoBacktests
          /\ st = IdleState /\ envelope = NoEnvelope
          /\ ~is_complete(ctx)
          /\ ctx.max_iterations = run.max_iterations
    /\ (pc = "stage1" /\ Len(handed) = 1) =>
          /\ st.current_iteration = run.current_iteration
          /\ st.input_feedback = run.feedback
          /\ st.best_sharpe = run.best_sharpe
          /\ st.best_strategy_id = run.best_strategy_id
          /\ st.mode = IF run.current_iteration = 0 THEN "new" ELSE "evolve"
          /\ handed[1].iteration = run.current_iteration

\* C16 witness: a run resumed after persisted iterations is in its first
\* iteration, with the feedback and the best Sharpe the backend held.
C16_Witness ==
    /\ entry = "resume"
    /\ pc = "stage1"
    /\ Len(handed) = 1
    /\ st.current_iteration > 0
    /\ st.input_feedback = "analyst"
    /\ st.best_sharpe \in FiniteSharpe

\* C17: saving the result of iteration i a second time leaves
\* current_iteration at i + 1.
C17_ResaveKeepsIteration ==
    (pc = "pub_completed" /\ Len(returned) > Len(handed))
       => ctx.current_iteration = st.current_iteration + 1

\* C18: at the iteration limit (current_iteration >= max_iterations) a
\* NEEDS_MODIFICATION diagnosis leaves the Analyst with decision ARCHIVE and
\* a termination_reason; below the limit it leaves NEEDS_MODIFICATION and no
\* termination_reason.
C18_LimitCoercesToArchive ==
    (analyst.pc = "done" /\ analyst.diagnosis = "NEEDS_MODIFICATION") =>
       IF CurrentIterationOf(analyst) >= MaxIterationsOf(analyst)
       THEN analyst.decision = "ARCHIVE" /\ analyst.termination_reason # "none"
       ELSE analyst.decision = "NEEDS_MODIFICATION"
            /\ analyst.termination_reason = "none"

\* C19: a message is acknowledged only if its handler returned normally;
\* a message whose handler raised or whose payload did not parse is not
\* acknowledged and is requeued.
C19_AckOnlyAfterHandler ==
    \A i \in 1..Len(consumer.log) :
       /\ consumer.log[i].settled = "acked" => consumer.log[i].handled
       /\ ~consumer.log[i].handled => consumer.log[i].settled = "requeued"

\* C20: whatever way a scoped block of the client was left (normal exit,
\* exception in the body, failure while opening), no channel it established
\* is open once control is outside the block.
C20_NoChannelOutsideBlock ==
    client.pc = "out" => (client.open = 0 /\ ~client.channel)

\* C21: whatever the interleaving of the tasks at their suspension points,
\* each task's event is published as it is when the task runs alone: no
\* publish raises because of what another task did to the broker.
C21_RunsDoNotInterfere ==
    \A t \in Tasks : bus.task[t] # "raised"

\* C22: every body publish_event hands on carries event_id, timestamp and
\* source; a field the caller supplied keeps its value (an empty event_id
\* counting as not supplied); and the event_ids generated by different calls
\* differ.
C22_EnvelopeFieldsFilled ==
    \A i \in 1..Len(outbox.log) :
       LET given == outbox.log[i].given
           sent  == outbox.log[i].sent IN
       /\ sent.event_id.kind \notin {"absent", "empty"}
       /\ sent.timestamp.kind # "absent"
       /\ sent.source.kind # "absent"
       /\ given.event_id.kind = "caller" => sent.event_id = given.event_id
       /\ given.event_id.kind \in {"absent", "empty"} => sent.event_id.kind = "uuid4"
       /\ given.timestamp.kind # "absent" => sent.timestamp = given.timestamp
       /\ given.source.kind # "absent" => sent.source = given.source
       /\ \A j \in 1..Len(outbox.log) :
             (i # j /\ sent.event_id.kind = "uuid4")
                => outbox.log[j].sent.event_id # sent.event_id

\* C22 witness: two bodies were published, one with the caller's event_id
\* kept and one, handed over with an empty event_id and nothing else, with
\* all three fields generated.
C22_Witness ==
    /\ Len(outbox.log) = 2
    /\ outbox.log[1].published /\ outbox.log[2].published
    /\ outbox.log[1].given.event_id.kind = "caller"
    /\ outbox.log[2].given = [event_id |-> Field("empty", 0),
                              timestamp |-> Field("absent", 0),
                              source |-> Field("absent", 0)]
    /\ outbox.log[2].sent.event_id = Field("uuid4", 2)

\* The taxonomy of spec section 3 for a status code.
Taxonomy(code) ==
    CASE code = "NOT_FOUND"                                  -> "NotFoundError"
      [] code \in {"INVALID_ARGUMENT", "FAILED_PRECONDITION"} -> "ValidationError"
      [] code = "UNAVAILABLE"                                -> "ConnectionError"
      [] code = "DEADLINE_EXCEEDED"                          -> "TimeoutError"
      [] code = "CANCELLED"                                  -> "CancelledError"
      [] OTHER                                               -> "InternalError"

\* C23: every status code raises the exception class of the fixed taxonomy,
\* InternalError for every code the taxonomy does not name.
C23_ErrorTaxonomy ==
    \A i \in 1..Len(calls) :
       calls[i].fn = "map_grpc_error" => calls[i].out = Taxonomy(calls[i].arg)

\* A decision string in lower case.
Lower(wire) ==
    CASE wire \in {"approve", "Approve", "APPROVE"} -> "approve"
      [] wire \in {"modify", "Modify", "MODIFY"}    -> "modify"
      [] wire \in {"archive", "Archive", "ARCHIVE"} -> "archive"
      [] OTHER                                      -> wire

\* C28: stage 4 maps the Analyst's decision without regard to letter case:
\* approve to READY_FOR_LIVE, modify to NEEDS_MODIFICATION, archive to
\* ARCHIVE.
C28_DecisionCaseInsensitive ==
    \A i \in 1..Len(calls) :
       calls[i].fn = "decision_map" =>
          /\ Lower(calls[i].arg) = "approve" => calls[i].out = "READY_FOR_LIVE"
          /\ Lower(calls[i].arg) = "modify" => calls[i].out = "NEEDS_MODIFICATION"
          /\ Lower(calls[i].arg) = "archive" => calls[i].out = "ARCHIVE"

\* C24: stage 1 calls the Engineer at most MAX_VALIDATION_RETRIES times; a
\* pass at the k-th call returns validation_retry_count = k - 1, and the loop
\* is exhausted exactly when MAX_VALIDATION_RETRIES calls failed validation.
C24_EngineerRetriesBounded ==
    /\ loop.engineer_runs <= MAX_VALIDATION_RETRIES
    /\ loop.status \in {"valid", "rpc_error"} =>
          loop.validation_retry_count = loop.engineer_runs - 1
    /\ loop.status = "exhausted" <=>
          /\ loop.status # "looping"
          /\ loop.validation_retry_count = MAX_VALIDATION_RETRIES
          /\ loop.engineer_runs = MAX_VALIDATION_RETRIES

C24_Witness ==
    /\ loop.status = "valid"
    /\ loop.engineer_runs = MAX_VALIDATION_RETRIES
    /\ loop.validation_retry_count = MAX_VALIDATION_RETRIES - 1

\* C25: a backtest job that failed within the polling budget does not end
\* the iteration: stage 3 leaves its loop with the synthetic failed result,
\* never with the terminating backtest_timeout.
C25_FailedJobNeverTerminates ==
    (loop.final = "failed" /\ loop.job_stalls < PollBudget
        /\ loop.status # "polling")
       => loop.status = "failed"

\* C26: stage 3 polls at most BACKTEST_MAX_WAIT / BACKTEST_POLL_INTERVAL
\* times; a poll that decides nothing (an RPC error included) costs one
\* interval and does not leave the loop; the loop times out exactly when
\* the whole budget went by with no final status read.
C26_PollsBounded ==
    /\ loop.polls <= PollBudget
    /\ loop.total_wait <= BACKTEST_MAX_WAIT
    /\ loop.status = "polling" =>
          loop.total_wait = loop.polls * BACKTEST_POLL_INTERVAL
    /\ loop.status \in {"completed", "failed", "cancelled"} =>
          loop.total_wait = (loop.polls - 1) * BACKTEST_POLL_INTERVAL
    /\ loop.status = "timeout" <=>
          /\ loop.status # "polling"
          /\ loop.polls = PollBudget
          /\ loop.total_wait = BACKTEST_MAX_WAIT

C26_Witness ==
    /\ loop.status = "timeout"
    /\ loop.polls = PollBudget
    /\ loop.shape = "flat"

\* C27: when stage 5 has returned, is_new_best is set exactly when the
\* iteration's Sharpe is a number strictly greater than best_sharpe, and then
\* new_best_sharpe is that Sharpe and optimization.new_best was emitted for
\* the iteration; a draw, a missing Sharpe and a NaN Sharpe set nothing and
\* emit nothing.
C27_NewBestIffStrictlyGreater ==
    pc = "save" =>
       LET sharpe == st.backtest_result.sharpe IN
       /\ st.is_new_best <=>
             (sharpe \in FiniteSharpe /\ sharpe > st.best_sharpe)
       /\ st.is_new_best =>
             /\ st.new_best_sharpe = sharpe
             /\ events # <<>>
             /\ events[Len(events)] = [key |-> "optimization.new_best",
                                       iteration |-> st.current_iteration]
       /\ (~st.is_new_best /\ events # <<>>) =>
             events[Len(events)].key # "optimization.new_best"

\* C27 witness: stage 5 has returned for a backtest whose Sharpe equals the
\* best so far, and set nothing.
C27_Witness ==
    /\ pc = "save"
    /\ st.backtest_result.sharpe \in FiniteSharpe
    /\ st.backtest_result.sharpe = st.best_sharpe
    /\ ~st.is_new_best
    /\ ~st.should_terminate

\* C30: a pipeline invocation creates a strategy, and submits a backtest,
\* only after stage 1 passed and at most once; the backtest is submitted for
\* the strategy just created, whose parent is the current_strategy_id the
\* invocation was handed.
C30_OneStrategyOneBacktest ==
    /\ \A i \in 1..Len(created) :
          LET c == created[i] IN
          /\ c.invocation \in 1..Len(handed)
          /\ c.validated
          /\ c.backtest = c.id
          /\ c.parent = handed[c.invocation].current_strategy_id
          /\ c.iteration = handed[c.invocation].iteration
    /\ \A i, j \in 1..Len(created) :
          i # j => created[i].invocation # created[j].invocation
    /\ (pc \in {"stage3", "poll", "stage4", "stage5", "save"}
           /\ ~st.validation_passed) =>
          /\ \A i \in 1..Len(created) : created[i].invocation # Len(handed)
          /\ ~st.backtest_job_id
    /\ (pc \in {"stage3", "poll", "stage4", "stage5", "save"}
           /\ st.backtest_job_id) =>
          /\ created # <<>>
          /\ created[Len(created)].invocation = Len(handed)
          /\ created[Len(created)].id = st.generated_strategy_id

\* C30 witness: the second invocation of a run created a strategy whose
\* parent is the strategy the first one created.
C30_Witness ==
    /\ Len(created) = 2
    /\ created[2].invocation = 2
    /\ created[2].parent = created[1].id
    /\ st.backtest_job_id

\* C29: an iteration whose Analyst call raised carries NEEDS_MODIFICATION
\* with the exception text as feedback and is not terminated by it, and the
\* iteration the Runner starts next is handed that feedback.
C29_AnalystExceptionFeedsNext ==
    [][(st.analyst_feedback = "analyst_exception") =>
          /\ st.analyst_decision = "NEEDS_MODIFICATION"
          /\ st.termination_reason \notin {"approved", "archived"}
          /\ (pc = "reload" /\ pc' = "pub_started") =>
                ctx'.previous_feedback = "analyst_exception"]_vars

\* C31: an iteration starts from the best strategy of the run so far: the
\* strategy of the best backtest completed in the run when that beat the best
\* the run was loaded with, and the base strategy when the run had no best
\* and no backtest has made one.
C31_CurrentIsBestSoFar ==
    pc = "stage1" =>
       IF backtests.strategy # NoStrategy
             /\ backtests.sharpe > handed[1].best_sharpe
       THEN st.current_strategy_id = backtests.strategy
       ELSE handed[1].best_sharpe = NegInf =>
               st.current_strategy_id = BaseStrategy

\* C32: at most one RPC channel is open at any time of a run, the one of
\* the scoped block around run_optimization.
C32_SingleChannel == channels <= 1

\* C33: a submit step that returned has published one strategy event, the
\* one of the effective decision: strategy.approved for READY_FOR_LIVE,
\* strategy.archived for ARCHIVE, and for NEEDS_MODIFICATION strategy.evolve
\* below the iteration limit and strategy.archived at or past it, with
\* max_iterations 10 and current_iteration 0 when the state holds none.
C33_OneEventByDecision ==
    analyst.pc = "done" =>
       LET ci == IF analyst.current_iteration = Absent
                 THEN 0 ELSE analyst.current_iteration
           mx == IF analyst.max_iterations = Absent
                 THEN 10 ELSE analyst.max_iterations
       IN  analyst.published =
              CASE analyst.diagnosis = "READY_FOR_LIVE" -> "strategy.approved"
                [] analyst.diagnosis = "ARCHIVE"        -> "strategy.archived"
                [] analyst.diagnosis = "NEEDS_MODIFICATION" /\ ci < mx
                                                        -> "strategy.evolve"
                [] analyst.diagnosis = "NEEDS_MODIFICATION" /\ ci >= mx
                                                        -> "strategy.archived"

\* C33 witness: a NEEDS_MODIFICATION diagnosis submitted with
\* current_iteration equal to max_iterations published strategy.archived.
C33_Witness ==
    /\ analyst.pc = "done"
    /\ analyst.diagnosis = "NEEDS_MODIFICATION"
    /\ analyst.max_iterations # Absent
    /\ analyst.current_iteration = analyst.max_iterations
    /\ analyst.published = "strategy.archived"

\* C34: the route taken after the decision follows the fixed priority: an
\* error fails; else READY_FOR_LIVE completes; else the last iteration
\* completes; else ARCHIVE archives; else NEEDS_MODIFICATION iterates when
\* there is feedback; everything else fails.
C34_RoutePriority ==
    loop.status \in {"increment_iteration", "complete", "handle_failure"} =>
       loop.route =
          IF loop.errors THEN "fail"
          ELSE IF loop.analyst_decision = "READY_FOR_LIVE" THEN "complete"
          ELSE IF loop.current_iteration >= loop.max_iterations - 1 THEN "complete"
          ELSE IF loop.analyst_decision = "ARCHIVE" THEN "archive"
          ELSE IF loop.analyst_decision = "NEEDS_MODIFICATION"
                     /\ loop.analyst_feedback # "none" THEN "iterate"
          ELSE "fail"

\* C34 witness: an ARCHIVE decision in the last iteration was routed to
\* complete.
C34_Witness ==
    /\ loop.status = "complete"
    /\ loop.route = "complete"
    /\ loop.analyst_decision = "ARCHIVE"
    /\ ~loop.errors
    /\ loop.current_iteration = loop.max_iterations - 1
    /\ loop.current_iteration > 0

\* C35: current_iteration stays at most max_iterations - 1, the Engineer is
\* run at most max_iterations times, at most one terminal node runs, and no
\* run leaves the graph without one.
C35_LegacyGraphEnds ==
    /\ loop.current_iteration <= loop.max_iterations - 1
    /\ loop.engineer_runs <= loop.max_iterations
    /\ loop.ended <= 1
    /\ loop.status # "raised"

C37_PipelineRunsBounded ==
    handed # <<>> =>
       Len(handed) <= run.max_iterations - handed[1].iteration

\* Positions of the control calls with a terminal action.
TerminalControls ==
    {j \in 1..Len(controls) : controls[j].action \in {"complete", "fail"}}

\* C38: one invocation of run_optimization calls control_optimization with
\* complete or fail at most once, over save, the exception handler and the
\* max-iterations path together.
C38_OneTerminalControl == Cardinality(TerminalControls) <= 1

\* C39: a stage entered with should_terminate set does nothing: the
\* iteration state, the events, the created strategies and the open channels
\* are as before, and the pipeline goes on to its next stage.
C39_LaterStagesNoOp ==
    [][(pc \in {"stage2", "stage3", "poll", "stage4", "stage5"}
          /\ st.should_terminate)
         => /\ st' = st
            /\ events' = events
            /\ created' = created
            /\ channels' = channels
            /\ pc' \in {"stage3", "stage4", "stage5", "save"}]_vars

\* C39 witness: the pipeline returned after stage 1 had terminated it, with
\* that reason and nothing created.
C39_Witness ==
    /\ pc = "save"
    /\ st.should_terminate
    /\ st.termination_reason = "validation_max_retries"
    /\ st.validation_retry_count = MAX_VALIDATION_RETRIES
    /\ \A i \in 1..Len(created) : created[i].invocation # Len(handed)

\* C40: whatever tasks publish before the broker is connected, the process
\* makes one connection at most, and no publish finds the exchange missing.
C40_ConnectsOnce ==
    /\ bus.connections <= 1
    /\ \A t \in Tasks : bus.task[t] = "raised" => bus.exchange

====
